---------------------------- MODULE Spec2Model ----------------------------
(***************************************************************************)
(* A model of bevy-where-was-i: the text codec of a Transform              *)
(* (src/src/serialization.rs) and the two systems that call it, load_state *)
(* and save_state (src/src/lib.rs).                                        *)
(*                                                                         *)
(* Text is modelled as it is: a byte string is a sequence of one-character *)
(* strings, a line is such a sequence without its terminator.  An f32 is   *)
(* identified by its shortest round-trip decimal, sign * m * 10^e with m   *)
(* free of trailing zeros, which is what f32's Display prints.  Parsing    *)
(* rounds a decimal to the nearest f32, ties to even, to an infinity       *)
(* beyond f32::MAX and to zero below the least subnormal, in exact         *)
(* arithmetic on digit strings, so that a literal may have any length.     *)
(***************************************************************************)
EXTENDS Integers, Sequences, FiniteSets, TLC

\* Op(v), with v evaluated once: a let that binds a value.
With(v, Op(_)) == CHOOSE out \in {Op(y) : y \in {v}} : TRUE

(***************************************************************************)
(* Characters and byte strings                                             *)
(***************************************************************************)
DigitChars == <<"0", "1", "2", "3", "4", "5", "6", "7", "8", "9">>

IsDigit(c) == \E i \in 1..10 : DigitChars[i] = c

DigitVal(c) == (CHOOSE i \in 1..10 : DigitChars[i] = c) - 1

NL == "\n"

CR == "\r"

\* A byte that is no part of any valid UTF-8 text.
BadByte == "\\xFF"

\* The number of decimal digits of n.
NatLen(n) ==
    IF n >= 1000000000 THEN 10
    ELSE CHOOSE l \in 1..9 : n < 10 ^ l /\ (l = 1 \/ n >= 10 ^ (l - 1))

NatToChars(n) ==
    [i \in 1..NatLen(n) |-> DigitChars[((n \div 10 ^ (NatLen(n) - i)) % 10) + 1]]

Zeros(n) == [i \in 1..n |-> "0"]

ToLower(c) ==
    CASE c = "I" -> "i" [] c = "N" -> "n" [] c = "F" -> "f" [] c = "T" -> "t"
      [] c = "Y" -> "y" [] c = "A" -> "a" [] c = "E" -> "e" [] OTHER -> c

LowerAll(s) == [i \in 1..Len(s) |-> ToLower(s[i])]

(***************************************************************************)
(* f32 values                                                              *)
(***************************************************************************)
F32Fin(neg, m, e) == [k |-> "fin", neg |-> neg, m |-> m, e |-> e]

F32Inf(neg) == [k |-> "inf", neg |-> neg, m |-> 0, e |-> 0]

F32NaN == [k |-> "nan", neg |-> FALSE, m |-> 0, e |-> 0]

IsFinite(f) == f.k = "fin"

\* f32's PartialEq: NaN equals nothing, and -0.0 == 0.0.
F32Eq(a, b) ==
    /\ a.k # "nan"
    /\ b.k # "nan"
    /\ \/ a = b
       \/ a.k = "fin" /\ b.k = "fin" /\ a.m = 0 /\ b.m = 0

\* f32::to_string (Display): the shortest decimal that parses back to the
\* value, never in scientific notation, without a trailing ".0".
F32ToString(f) ==
    LET sign == IF f.neg THEN <<"-">> ELSE <<>>
        ds   == NatToChars(f.m)
        n    == Len(ds)
        kk   == 0 - f.e
    IN  CASE f.k = "nan" -> <<"N", "a", "N">>
          [] f.k = "inf" -> sign \o <<"i", "n", "f">>
          [] OTHER ->
               sign \o
               (IF f.e >= 0 THEN ds \o Zeros(f.e)
                ELSE IF n > kk
                     THEN SubSeq(ds, 1, n - kk) \o <<".">> \o SubSeq(ds, n - kk + 1, n)
                     ELSE <<"0", ".">> \o Zeros(kk - n) \o ds)

(***************************************************************************)
(* Natural numbers of any size, for the exact arithmetic of str::parse:    *)
(* the decimal digits 0..9, most significant first, without leading zeros; *)
(* <<>> is zero.                                                           *)
(***************************************************************************)
\* The number of zeros that a starts with.
LeadingZeros(a) ==
    IF \A i \in 1..Len(a) : a[i] = 0 THEN Len(a)
    ELSE (CHOOSE i \in 1..Len(a) :
            a[i] # 0 /\ \A j \in 1..(i - 1) : a[j] = 0) - 1

BigStrip(a) == SubSeq(a, LeadingZeros(a) + 1, Len(a))

\* The number of zeros that a ends with.
TrailingZeros(a) ==
    IF \A i \in 1..Len(a) : a[i] = 0 THEN Len(a)
    ELSE Len(a) - (CHOOSE i \in 1..Len(a) :
                     a[i] # 0 /\ \A j \in (i + 1)..Len(a) : a[j] = 0)

NatZeros(n) == [i \in 1..n |-> 0]

FromNat(n) ==
    IF n = 0 THEN <<>>
    ELSE [i \in 1..NatLen(n) |-> (n \div 10 ^ (NatLen(n) - i)) % 10]

\* The number of at most nine digits.
ToNat(a) ==
    LET d(i) == IF i <= Len(a) THEN a[i] * 10 ^ (Len(a) - i) ELSE 0
    IN  ((d(1) + d(2)) + (d(3) + d(4)))
        + ((d(5) + d(6)) + (d(7) + (d(8) + d(9))))

\* -1, 0 or 1 as a < b, a = b or a > b, for digits of one length: the
\* first digit in which they differ decides.
LexCmp(a, b) ==
    IF a = b THEN 0
    ELSE With(CHOOSE i \in 1..Len(a) :
                a[i] # b[i] /\ \A j \in 1..(i - 1) : a[j] = b[j],
              LAMBDA i : IF a[i] < b[i] THEN 0 - 1 ELSE 1)

\* -1, 0 or 1 as a < b, a = b or a > b.
BigCmp(a, b) ==
    IF Len(a) < Len(b) THEN 0 - 1
    ELSE IF Len(a) > Len(b) THEN 1
    ELSE LexCmp(a, b)

\* 2 * a: a digit doubles and takes a carry when the digit after it is >= 5.
BigDouble(a) ==
    BigStrip([i \in 1..Len(a) + 1 |->
                (2 * (IF i = 1 THEN 0 ELSE a[i - 1])
                 + (IF i <= Len(a) /\ a[i] >= 5 THEN 1 ELSE 0)) % 10])

\* The most powers of 2 or of 5 taken in one pass over the digits.
MaxPass == 7

\* 2^k * a for k <= MaxPass: a digit takes 2^k times itself and the carry
\* of the k digits after it, which no digit further on can change.
TimesPow2(a, k) ==
    LET b    == NatZeros(3) \o a \o NatZeros(MaxPass)
        t(i, j) == IF j <= k THEN b[i + j] * 10 ^ (k - j) ELSE 0
        w(i) == ((t(i, 1) + t(i, 2)) + (t(i, 3) + t(i, 4)))
                + ((t(i, 5) + t(i, 6)) + t(i, 7))
    IN  BigStrip([i \in 1..Len(a) + 3 |->
                    (2 ^ k * b[i] + (2 ^ k * w(i)) \div 10 ^ k) % 10])

\* 5^k * a for k <= MaxPass, as 10^k * a / 2^k: a digit of the quotient
\* comes of the digit above it and the k digits before that.
TimesPow5(a, k) ==
    LET b    == NatZeros(MaxPass) \o a \o NatZeros(k)
        t(i, j) == IF j <= k THEN b[i + MaxPass - j] * 10 ^ j ELSE 0
        v(i) == ((t(i, 0) + t(i, 1)) + (t(i, 2) + t(i, 3)))
                + ((t(i, 4) + t(i, 5)) + (t(i, 6) + t(i, 7)))
    IN  BigStrip([i \in 1..Len(a) + k |-> (v(i) \div 2 ^ k) % 10])

\* The part of n taken first: half of its passes.
FirstPart(n) == MaxPass * (((n \div MaxPass) + 1) \div 2)

\* 2^n * a, by halves of the passes.
RECURSIVE BigDoubleN(_, _)
BigDoubleN(a, n) ==
    IF n <= 0 THEN a
    ELSE IF n <= MaxPass THEN TimesPow2(a, n)
    ELSE With(BigDoubleN(a, FirstPart(n)),
              LAMBDA h : BigDoubleN(h, n - FirstPart(n)))

\* 5^n * a, by halves of the passes.
RECURSIVE BigTimes5N(_, _)
BigTimes5N(a, n) ==
    IF n <= 0 THEN a
    ELSE IF n <= MaxPass THEN TimesPow5(a, n)
    ELSE With(BigTimes5N(a, FirstPart(n)),
              LAMBDA h : BigTimes5N(h, n - FirstPart(n)))

\* a - b, for a >= b: a digit borrows when the digits after it are less in
\* a than in b.
BigSub(a, b) ==
    With(NatZeros(Len(a) - Len(b)) \o b, LAMBDA bp :
      BigStrip([i \in 1..Len(a) |->
                  (10 + a[i] - bp[i]
                   - (IF LexCmp(SubSeq(a, i + 1, Len(a)),
                                SubSeq(bp, i + 1, Len(a))) < 0 THEN 1 ELSE 0)) % 10]))

\* a + 1, for digits a that may start with zeros.
BigInc(a) ==
    IF \A i \in 1..Len(a) : a[i] = 9 THEN <<1>> \o NatZeros(Len(a))
    ELSE LET p == CHOOSE i \in 1..Len(a) :
                    a[i] # 9 /\ \A j \in (i + 1)..Len(a) : a[j] = 9
         IN  [i \in 1..Len(a) |->
                IF i < p THEN a[i] ELSE IF i = p THEN a[i] + 1 ELSE 0]

(***************************************************************************)
(* Decimal to f32 and back.  A finite non-zero f32 is M * 2^E with         *)
(* M < 2^MANTISSA_DIGITS and MinPow2 <= E <= MaxPow2, and M >= 2^23 unless *)
(* E = MinPow2 (the subnormals).                                           *)
(***************************************************************************)
\* f32::MANTISSA_DIGITS
MANTISSA_DIGITS == 24

\* f32::DIGITS: every decimal of that many significant digits in the normal
\* range is the shortest decimal of the f32 nearest to it.
DIGITS == 6

\* The power of two of the least subnormal, 2^-149.
MinPow2 == 0 - 149

\* f32::MAX is (2^24 - 1) * 2^104.
MaxPow2 == 104

\* A number of doublings that 10^d allows: 2^Log2Pow10(d) <= 10^d.
Log2Pow10(d) == IF d <= 0 THEN 0 ELSE (3321 * d) \div 1000

\* After the doublings that the lengths of two numbers allow, fewer than
\* this many are left to bring one past the other.
FineSteps == 9

\* s.a / s.top * 2^(24 + s.e) is the number to round.  top doubles until
\* a < top.
ScaleTop(s) ==
    With(BigDoubleN(s.top, Log2Pow10(Len(s.a) - Len(s.top) - 1)), LAMBDA t :
      LET j == CHOOSE i \in 0..FineSteps :
                 /\ BigCmp(s.a, BigDoubleN(t, i)) < 0
                 /\ i = 0 \/ BigCmp(s.a, BigDoubleN(t, i - 1)) >= 0
      IN  [a   |-> s.a,
           top |-> BigDoubleN(t, j),
           e   |-> s.e + Log2Pow10(Len(s.a) - Len(s.top) - 1) + j])

\* a doubles until top <= 2 * a, or the exponent is the least one.
ScaleNum(s) ==
    With(IF Log2Pow10(Len(s.top) - Len(s.a) - 1) < s.e - MinPow2
         THEN Log2Pow10(Len(s.top) - Len(s.a) - 1) ELSE s.e - MinPow2, LAMBDA k :
    With(BigDoubleN(s.a, k), LAMBDA a :
      LET j == CHOOSE i \in 0..FineSteps :
                 /\ s.e - k - i <= MinPow2
                    \/ BigCmp(BigDoubleN(a, i + 1), s.top) >= 0
                 /\ \/ i = 0
                    \/ /\ s.e - k - i >= MinPow2
                       /\ BigCmp(BigDoubleN(a, i), s.top) < 0
      IN  [a |-> BigDoubleN(a, j), top |-> s.top, e |-> s.e - k - j]))

\* n more bits of the quotient s.r / top, for s.r < top, in s.q, and the rest
\* in s.r; by halves of n.
RECURSIVE DivBits(_, _, _)
DivBits(s, top, n) ==
    IF n <= 1
    THEN With(BigDouble(s.r), LAMBDA d :
           IF BigCmp(d, top) >= 0
           THEN [q |-> 2 * s.q + 1, r |-> BigSub(d, top)]
           ELSE [q |-> 2 * s.q, r |-> d])
    ELSE With(DivBits(s, top, n \div 2), LAMBDA h :
           DivBits(h, top, n - (n \div 2)))

\* The 24 bits of s.a / s.top, rounded to nearest, ties to even.
RoundBits(s) ==
    With(DivBits([q |-> 0, r |-> s.a], s.top, MANTISSA_DIGITS), LAMBDA qr :
      LET c    == BigCmp(BigDouble(qr.r), s.top)
          mant == IF c > 0 \/ (c = 0 /\ qr.q % 2 = 1) THEN qr.q + 1 ELSE qr.q
      IN  IF mant = 2 ^ MANTISSA_DIGITS
          THEN [M |-> 2 ^ (MANTISSA_DIGITS - 1), E |-> s.e + 1]
          ELSE [M |-> mant, E |-> s.e])

\* M and E of the binary number nearest to n / dn; E > MaxPow2 is overflow.
NearestBinary(n, dn) ==
    With(ScaleTop([a |-> n, top |-> BigDoubleN(dn, MANTISSA_DIGITS), e |-> 0]),
         LAMBDA s1 :
    With(ScaleNum(s1), LAMBDA s2 : RoundBits(s2)))

\* n * 2^(E - 2) as an integer of units 10^min(E - 2, 0).
Scaled(n, E) ==
    IF E >= 2 THEN BigDoubleN(FromNat(n), E - 2)
    ELSE BigTimes5N(FromNat(n), 2 - E)

\* A step of the digit generation of core::num::flt2dec's format_shortest:
\* b.f, the value, is cut after n digits; the cut may be taken (down) when it
\* lies above b.lo, the cut plus one unit (up) when it lies below b.hi, these
\* being the halfway points to the neighbouring f32 values, which count
\* when b.incl; half tells that the value is no nearer to the cut.
Cut(b, n) ==
    LET pre   == SubSeq(b.f, 1, n)
        pad   == NatZeros(Len(b.f) - n)
        preUp == BigInc(pre)
        cd    == BigCmp(BigStrip(pre \o pad), b.lo)
        cu    == BigCmp(BigStrip(preUp \o pad), b.hi)
    IN  [pre   |-> pre,
         preUp |-> preUp,
         e10   |-> Len(b.f) - n,
         down  |-> IF b.incl THEN cd >= 0 ELSE cd > 0,
         up    |-> IF b.incl THEN cu <= 0 ELSE cu < 0,
         half  |-> BigCmp(BigDouble(BigStrip(SubSeq(b.f, n + 1, Len(b.f)))),
                          <<1>> \o pad) >= 0]

Stops(c) == c.down \/ c.up

\* The generation stops at the first cut that may be taken, and rounds up
\* when only up is open, or when both are and the value is no nearer to down.
Generate(b) ==
    With(Cut(b, CHOOSE n \in 1..Len(b.f) :
                  Stops(Cut(b, n)) /\ \A j \in 1..(n - 1) : ~Stops(Cut(b, j))),
         LAMBDA c :
           IF c.up /\ (~c.down \/ c.half)
           THEN [digits |-> c.preUp, e10 |-> c.e10]
           ELSE [digits |-> c.pre, e10 |-> c.e10])

\* The value and the halfway points of M * 2^E in one unit, the value
\* written with as many digits as the scale of hi has.
Bounds(M, E) ==
    With([f  |-> Scaled(4 * M, E),
          hi |-> Scaled(4 * M + 2, E),
          lo |-> Scaled(IF M = 2 ^ (MANTISSA_DIGITS - 1) /\ E > MinPow2
                        THEN 4 * M - 1 ELSE 4 * M - 2, E)],
         LAMBDA s :
           LET incl == M % 2 = 0
               k    == IF ~incl /\ s.hi[1] = 1 /\ BigStrip(Tail(s.hi)) = <<>>
                       THEN Len(s.hi) - 1 ELSE Len(s.hi)
           IN  [f |-> NatZeros(k - Len(s.f)) \o s.f, lo |-> s.lo, hi |-> s.hi,
                incl |-> incl])

\* The shortest decimal m * 10^e that parses back to M * 2^E.
ShortestDecimal(M, E) ==
    With(Bounds(M, E), LAMBDA b :
    With(Generate(b), LAMBDA g :
      LET tz == TrailingZeros(g.digits)
      IN  [m |-> ToNat(SubSeq(g.digits, 1, Len(g.digits) - tz)),
           e |-> g.e10 + tz + (IF E >= 2 THEN 0 ELSE E - 2)]))

\* The f32 of a binary number: infinite beyond f32::MAX.
FromBinary(neg, b) ==
    IF b.E > MaxPow2 THEN F32Inf(neg)
    ELSE IF b.M = 0 THEN F32Fin(neg, 0, 0)
    ELSE With(ShortestDecimal(b.M, b.E), LAMBDA d : F32Fin(neg, d.m, d.e))

\* The f32 nearest to sign * ds * 10^x, ds being decimal digits.  A decimal
\* of at most DIGITS digits in the normal range is its own shortest decimal;
\* any other is rounded to 24 bits and printed back.
NearestF32(neg, ds, x) ==
    With(BigStrip(ds), LAMBDA lead :
      LET sig == SubSeq(lead, 1, Len(lead) - TrailingZeros(lead))
          xs  == x + Len(lead) - Len(sig)
          p   == xs + Len(sig) - 1
      IN  IF sig = <<>> THEN F32Fin(neg, 0, 0)
          ELSE IF p >= 39 THEN F32Inf(neg)
          ELSE IF p <= 0 - 47 THEN F32Fin(neg, 0, 0)
          ELSE IF Len(sig) <= DIGITS /\ p >= 0 - 37 /\ p <= 37
               THEN F32Fin(neg, ToNat(sig), xs)
          ELSE With(IF xs >= 0 THEN NearestBinary(sig \o NatZeros(xs), <<1>>)
                    ELSE NearestBinary(sig, <<1>> \o NatZeros(0 - xs)),
                    LAMBDA b : FromBinary(neg, b)))

\* The number of digits of s from position p on.
DigitRun(s, p) ==
    IF \A i \in p..Len(s) : IsDigit(s[i]) THEN Len(s) + 1 - p
    ELSE (CHOOSE i \in p..Len(s) :
            ~IsDigit(s[i]) /\ \A j \in p..(i - 1) : IsDigit(s[j])) - p

\* dec2flt's exponent digits: the number stops growing at 0x10000.
RECURSIVE ExpNum(_, _)
ExpNum(s, acc) ==
    IF s = <<>> THEN acc
    ELSE ExpNum(Tail(s), IF acc < 65536 THEN 10 * acc + DigitVal(s[1]) ELSE acc)

\* The exponent of a literal whose 'e' stands at position p of s: its value
\* and the position after it; ok = FALSE when no digit follows.
ParseExponent(s, p) ==
    With(p + 1 <= Len(s) /\ s[p + 1] \in {"+", "-"}, LAMBDA sgn :
    With(IF sgn THEN p + 2 ELSE p + 1, LAMBDA q :
    With(DigitRun(s, q), LAMBDA n3 :
    With(ExpNum(SubSeq(s, q, q + n3 - 1), 0), LAMBDA expAbs :
      [ok  |-> n3 > 0,
       num |-> IF sgn /\ s[p + 1] = "-" THEN 0 - expAbs ELSE expAbs,
       end |-> q + n3]))))

\* core::num::dec2flt's parse_number on an unsigned literal:
\* (Digit+ | Digit+ '.' Digit* | Digit* '.' Digit+) (('e'|'E') Sign? Digit+)?,
\* all of s consumed: the digits ds and the exponent e of ds * 10^e.
\* ok = FALSE when s is no such literal.
ParseNumber(s) ==
    With(DigitRun(s, 1), LAMBDA n1 :
    With(n1 + 1 <= Len(s) /\ s[n1 + 1] = ".", LAMBDA dot :
    With(IF dot THEN DigitRun(s, n1 + 2) ELSE 0, LAMBDA n2 :
    With(IF dot THEN n1 + n2 + 2 ELSE n1 + 1, LAMBDA p :
    With(IF p <= Len(s) /\ s[p] \in {"e", "E"} THEN ParseExponent(s, p)
         ELSE [ok |-> TRUE, num |-> 0, end |-> p], LAMBDA exp :
      IF n1 + n2 = 0 \/ ~exp.ok \/ exp.end # Len(s) + 1
      THEN [ok |-> FALSE, ds |-> <<>>, e |-> 0]
      ELSE [ok |-> TRUE,
            ds |-> [i \in 1..n1 + n2 |->
                      DigitVal(s[IF i <= n1 THEN i ELSE i + 1])],
            e  |-> exp.num - n2])))))

\* dec2flt's parse_inf_nan: "nan", "inf" and "infinity" in any case.
ParseInfNan(s, negative) ==
    LET l == LowerAll(s)
    IN  IF l = <<"n", "a", "n">> THEN [ok |-> TRUE, val |-> F32NaN]
        ELSE IF l = <<"i", "n", "f">>
                \/ l = <<"i", "n", "f", "i", "n", "i", "t", "y">>
             THEN [ok |-> TRUE, val |-> F32Inf(negative)]
             ELSE [ok |-> FALSE, val |-> F32NaN]

\* ParseFloatError's Display texts.
PfeEmpty ==
    <<"c","a","n","n","o","t"," ","p","a","r","s","e"," ","f","l","o","a","t"," ",
      "f","r","o","m"," ","e","m","p","t","y"," ","s","t","r","i","n","g">>

PfeInvalid ==
    <<"i","n","v","a","l","i","d"," ","f","l","o","a","t"," ",
      "l","i","t","e","r","a","l">>

\* The literal after its sign: a number, or else inf or nan.
ParseUnsigned(body, negative) ==
    With(ParseNumber(body), LAMBDA num :
      IF num.ok
      THEN [ok |-> TRUE, val |-> NearestF32(negative, num.ds, num.e), msg |-> <<>>]
      ELSE With(ParseInfNan(body, negative), LAMBDA special :
             IF special.ok THEN [ok |-> TRUE, val |-> special.val, msg |-> <<>>]
             ELSE [ok |-> FALSE, val |-> F32NaN, msg |-> PfeInvalid]))

\* str::parse::<f32>: Ok(value) or Err(ParseFloatError).
ParseF32(s) ==
    IF s = <<>> THEN [ok |-> FALSE, val |-> F32NaN, msg |-> PfeEmpty]
    ELSE IF s[1] \in {"-", "+"}
         THEN IF Len(s) = 1 THEN [ok |-> FALSE, val |-> F32NaN, msg |-> PfeInvalid]
              ELSE ParseUnsigned(Tail(s), s[1] = "-")
         ELSE ParseUnsigned(s, FALSE)

(***************************************************************************)
(* Transform                                                               *)
(***************************************************************************)
Transform(translation, rotation, scale) ==
    [translation |-> translation, rotation |-> rotation, scale |-> scale]

\* The ten components in file order.
Components(t) == t.translation \o t.rotation \o t.scale

FromComponents(c) ==
    Transform(SubSeq(c, 1, 3), SubSeq(c, 4, 7), SubSeq(c, 8, 10))

\* Transform's PartialEq: Vec3, Quat and Vec3 compared component by component.
TransformEq(a, b) ==
    \A i \in 1..10 : F32Eq(Components(a)[i], Components(b)[i])

AllFinite(t) == \A i \in 1..10 : IsFinite(Components(t)[i])

(***************************************************************************)
(* The byte sink and std's BufWriter over it                               *)
(***************************************************************************)
\* The capacity BufWriter::new gives its buffer.
DEFAULT_BUF_SIZE == 8192

\* A sink that takes `room` more bytes and then fails, or any number of them.
Sink(limited, room) == [data |-> <<>>, limited |-> limited, room |-> room]

BufWriterNew(cap, sink) == [buf |-> <<>>, cap |-> cap, sink |-> sink]

\* Write::write_all of the sink: what fits is written, the rest is an error.
SinkWriteAll(sink, bytes) ==
    IF ~sink.limited
    THEN [ok |-> TRUE, sink |-> [sink EXCEPT !.data = @ \o bytes]]
    ELSE IF Len(bytes) <= sink.room
         THEN [ok |-> TRUE,
               sink |-> [sink EXCEPT !.data = @ \o bytes, !.room = @ - Len(bytes)]]
         ELSE [ok |-> FALSE,
               sink |-> [sink EXCEPT !.data = @ \o SubSeq(bytes, 1, sink.room),
                                     !.room = 0]]

\* BufWriter::flush_buf: the written part leaves the buffer also on an error.
FlushBuf(w) ==
    LET r == SinkWriteAll(w.sink, w.buf)
        n == Len(r.sink.data) - Len(w.sink.data)
    IN  [ok |-> r.ok,
         w  |-> [w EXCEPT !.sink = r.sink, !.buf = SubSeq(w.buf, n + 1, Len(w.buf))]]

\* BufWriter::write_all: buffered when it fits, else the buffer is flushed
\* first and a chunk of at least the capacity goes to the sink directly.
WriteAll(w, bytes) ==
    IF Len(bytes) < w.cap - Len(w.buf)
    THEN [ok |-> TRUE, w |-> [w EXCEPT !.buf = @ \o bytes]]
    ELSE
      LET f == IF Len(bytes) > w.cap - Len(w.buf) THEN FlushBuf(w)
               ELSE [ok |-> TRUE, w |-> w]
          d == SinkWriteAll(f.w.sink, bytes)
      IN  IF ~f.ok THEN f
          ELSE IF Len(bytes) >= w.cap
               THEN [ok |-> d.ok, w |-> [f.w EXCEPT !.sink = d.sink]]
               ELSE [ok |-> TRUE, w |-> [f.w EXCEPT !.buf = @ \o bytes]]

\* The write_all(..)? calls for the k-th to the n-th chunk, one after the
\* other, taken by halves: the first error ends the run.
RECURSIVE WriteRange(_, _, _, _)
WriteRange(r, chunks, k, n) ==
    IF ~r.ok \/ k > n THEN r
    ELSE IF k = n THEN WriteAll(r.w, chunks[k])
    ELSE With(WriteRange(r, chunks, k, (k + n) \div 2), LAMBDA mid :
           WriteRange(mid, chunks, ((k + n) \div 2) + 1, n))

\* A run of write_all(..)? calls.
WriteChunks(w, chunks) == WriteRange([ok |-> TRUE, w |-> w], chunks, 1, Len(chunks))

\* Dropping the BufWriter flushes it and ignores the result; what the sink
\* then holds is the file.
DropWriter(w) == FlushBuf(w).w.sink.data

(***************************************************************************)
(* serialize_transform                                                     *)
(***************************************************************************)
\* A header without the blank line after the version.
HeaderChunkNoBlank == <<"v", "0", NL>>

HeaderChunk == <<"v", "0", NL, NL>>

TranslationChunk == <<"t", "r", "a", "n", "s", "l", "a", "t", "i", "o", "n", ":", NL>>

RotationChunk == <<"r", "o", "t", "a", "t", "i", "o", "n", ":", NL>>

ScaleChunk == <<"s", "c", "a", "l", "e", ":", NL>>

\* The write_all calls of serialize_transform, in order.
SerializeChunks(t) ==
    << HeaderChunk,
       TranslationChunk,
       F32ToString(t.translation[1]), <<NL>>,
       F32ToString(t.translation[2]), <<NL>>,
       F32ToString(t.translation[3]), <<NL, NL>>,
       RotationChunk,
       F32ToString(t.rotation[1]), <<NL>>,
       F32ToString(t.rotation[2]), <<NL>>,
       F32ToString(t.rotation[3]), <<NL>>,
       F32ToString(t.rotation[4]), <<NL, NL>>,
       ScaleChunk,
       F32ToString(t.scale[1]), <<NL>>,
       F32ToString(t.scale[2]), <<NL>>,
       F32ToString(t.scale[3]), <<NL>> >>

\* Result<(), io::Error> and the writer as the call leaves it.
serialize_transform(writer, transform) ==
    WriteChunks(writer, SerializeChunks(transform))

(***************************************************************************)
(* BufRead::lines                                                          *)
(***************************************************************************)
\* The position of the first NL of bytes from p on, or Len(bytes) + 1.
FindNL(bytes, p) ==
    IF \A i \in p..Len(bytes) : bytes[i] # NL THEN Len(bytes) + 1
    ELSE CHOOSE i \in p..Len(bytes) :
           bytes[i] = NL /\ \A j \in p..(i - 1) : bytes[j] # NL

LineItem(raw, terminated) ==
    LET n == Len(raw)
        s == IF terminated /\ n > 0 /\ raw[n] = CR THEN SubSeq(raw, 1, n - 1) ELSE raw
    IN  [ok |-> \A i \in 1..Len(s) : s[i] # BadByte, s |-> s]

\* io::Lines: each line without its "\n" or "\r\n"; a last line without a
\* terminator is a line too; a line that is not UTF-8 is an Err item.
RECURSIVE ReadLines(_)
ReadLines(bytes) ==
    IF bytes = <<>> THEN <<>>
    ELSE LET p == FindNL(bytes, 1)
         IN  <<LineItem(SubSeq(bytes, 1, p - 1), p <= Len(bytes))>>
             \o ReadLines(SubSeq(bytes, p + 1, Len(bytes)))

(***************************************************************************)
(* deserialize_transform                                                   *)
(***************************************************************************)
\* WhereWasIParseError::expected_line().message
expected_line ==
    <<"E", "x", "p", "e", "c", "t", "e", "d", " ", "l", "i", "n", "e", " ", "t", "o",
      " ", "b", "e", " ", "t", "h", "e", "r", "e", ",", " ", "b", "u", "t", " ", "i",
      "t", " ", "w", "a", "s", "n", "'", "t", " ", "t", "h", "e", "r", "e">>

WrongVersionPrefix ==
    <<"W", "r", "o", "n", "g", " ", "v", "e", "r", "s", "i", "o", "n", ":", " ">>

\* From<io::Error>: the message of the error Lines yields for a non-UTF-8 line.
InvalidUtf8 ==
    <<"s", "t", "r", "e", "a", "m", " ", "d", "i", "d", " ", "n", "o", "t", " ", "c",
      "o", "n", "t", "a", "i", "n", " ", "v", "a", "l", "i", "d", " ", "U", "T", "F",
      "-", "8">>

VersionTag == <<"v", "0">>

\* The decoder's progress: the lines taken from the iterator so far (pos), the
\* line just read, the floats parsed, and the error that ended it, if any.
DecodeStart == [pos |-> 0, failed |-> FALSE, msg |-> <<>>, line |-> <<>>, vals |-> <<>>]

Fail(st, msg) == [st EXCEPT !.failed = TRUE, !.msg = msg]

\* A read that takes a missing line for an empty one
\* (lines.next().unwrap_or_default()).
NextLineOrEmpty(st, lines) ==
    IF st.failed THEN st
    ELSE IF st.pos >= Len(lines) THEN [st EXCEPT !.line = <<>>]
    ELSE IF ~lines[st.pos + 1].ok THEN Fail([st EXCEPT !.pos = @ + 1], InvalidUtf8)
    ELSE [st EXCEPT !.pos = @ + 1, !.line = lines[st.pos + 1].s]

\* lines.next().ok_or(WhereWasIParseError::expected_line())??
NextLine(st, lines) ==
    IF st.failed THEN st
    ELSE IF st.pos >= Len(lines) THEN Fail(st, expected_line)
    ELSE IF ~lines[st.pos + 1].ok THEN Fail([st EXCEPT !.pos = @ + 1], InvalidUtf8)
    ELSE [st EXCEPT !.pos = @ + 1, !.line = lines[st.pos + 1].s]

\* A version check that looks at the first character only
\* (!version.starts_with('v')).
CheckVersionPrefix(st) ==
    IF st.failed THEN st
    ELSE IF st.line = <<>> \/ st.line[1] # "v" THEN Fail(st, WrongVersionPrefix \o st.line)
    ELSE st

\* if version != "v0" { return Err(..) }
CheckVersion(st) ==
    IF st.failed THEN st
    ELSE IF st.line # VersionTag THEN Fail(st, WrongVersionPrefix \o st.line)
    ELSE st

next_float(st, lines) ==
    With(NextLine(st, lines), LAMBDA r :
      IF r.failed THEN r
      ELSE With(ParseF32(r.line), LAMBDA f :
             IF ~f.ok THEN Fail(r, f.msg)
             ELSE [r EXCEPT !.vals = Append(@, f.val)]))

\* Reads that expect one more line after the last float.
DecodeStepsTrailing ==
    <<"version", "line", "line", "float", "float", "float",
      "line", "line", "float", "float", "float", "float",
      "line", "line", "float", "float", "float", "line">>

\* The reads of deserialize_transform, in order: the version, then three times
\* two lines that are dropped and the floats of a field.
DecodeSteps ==
    <<"version", "line", "line", "float", "float", "float",
      "line", "line", "float", "float", "float", "float",
      "line", "line", "float", "float", "float">>

\* A decoder that checks the lines between the fields: each is empty or a
\* label ending in ':'.
DecodeStepStrict(st, lines, step) ==
    CASE step = "version" -> CheckVersion(NextLine(st, lines))
      [] step = "line"    ->
           With(NextLine(st, lines), LAMBDA r :
             IF r.failed \/ r.line = <<>> \/ r.line[Len(r.line)] = ":" THEN r
             ELSE Fail(r, PfeInvalid))
      [] step = "float"   -> next_float(st, lines)

DecodeStep(st, lines, step) ==
    CASE step = "version" -> CheckVersion(NextLine(st, lines))
      [] step = "line"    -> NextLine(st, lines)
      [] step = "float"   -> next_float(st, lines)

\* The reads from the k-th to the n-th, one after the other, taken by
\* halves; each `?` hands an error through to the end.
RECURSIVE DecodeRange(_, _, _, _)
DecodeRange(st, lines, k, n) ==
    IF k > n THEN st
    ELSE IF k = n THEN DecodeStep(st, lines, DecodeSteps[k])
    ELSE With(DecodeRange(st, lines, k, (k + n) \div 2), LAMBDA mid :
           DecodeRange(mid, lines, ((k + n) \div 2) + 1, n))

\* The reads from the k-th on.
DecodeFrom(st, lines, k) == DecodeRange(st, lines, k, Len(DecodeSteps))

\* A decoder that counts the lines before it reads any of them.
deserialize_counted(lines) ==
    IF Len(lines) < Len(DecodeSteps)
    THEN [ok |-> FALSE, msg |-> expected_line, pos |-> Len(lines), vals |-> <<>>]
    ELSE With(DecodeFrom(DecodeStart, lines, 1), LAMBDA end :
           IF end.failed
           THEN [ok |-> FALSE, msg |-> end.msg, pos |-> end.pos, vals |-> <<>>]
           ELSE [ok |-> TRUE, msg |-> <<>>, pos |-> end.pos, vals |-> end.vals])

\* Result<Transform, WhereWasIParseError>, with the number of lines taken.
deserialize_transform(lines) ==
    With(DecodeFrom(DecodeStart, lines, 1), LAMBDA end :
      IF end.failed
      THEN [ok |-> FALSE, msg |-> end.msg, pos |-> end.pos, vals |-> <<>>]
      ELSE [ok |-> TRUE, msg |-> <<>>, pos |-> end.pos, vals |-> end.vals])

\* The rotation's floats taken as w, x, y, z.
DecodedWXYZ(r) ==
    Transform(SubSeq(r.vals, 1, 3),
              <<r.vals[5], r.vals[6], r.vals[7], r.vals[4]>>,
              SubSeq(r.vals, 8, 10))

\* The Transform of an Ok result: Vec3::new, Quat::from_vec4(Vec4::new), Vec3::new.
Decoded(r) == FromComponents(r.vals)

(***************************************************************************)
(* Sample values                                                           *)
(***************************************************************************)
Zero == F32Fin(FALSE, 0, 0)

One == F32Fin(FALSE, 1, 0)

\* Transform::IDENTITY
IDENTITY == Transform(<<Zero, Zero, Zero>>, <<Zero, Zero, Zero, One>>, <<One, One, One>>)

\* The tests' TRANSFORM: (4.0, 3.5, -2.0), (-0.1, 0.7, 0.4, 0.6), (12.6, -1.0, 2.4).
TRANSFORM ==
    Transform(<<F32Fin(FALSE, 4, 0), F32Fin(FALSE, 35, -1), F32Fin(TRUE, 2, 0)>>,
              <<F32Fin(TRUE, 1, -1), F32Fin(FALSE, 7, -1), F32Fin(FALSE, 4, -1),
                F32Fin(FALSE, 6, -1)>>,
              <<F32Fin(FALSE, 126, -1), F32Fin(TRUE, 1, 0), F32Fin(FALSE, 24, -1)>>)

BaseTransforms == {IDENTITY, TRANSFORM}

\* 0.0, -0.0, 1.0, the least subnormal negated, f32::consts::PI, 0.025,
\* f32::MAX, the infinities and NaN.
FloatSamples ==
    {Zero, F32Fin(TRUE, 0, 0), One, F32Fin(TRUE, 1, 0 - 45), F32Fin(FALSE, 31415927, 0 - 7),
     F32Fin(FALSE, 25, 0 - 3), F32Fin(FALSE, 34028235, 31), F32Inf(FALSE), F32Inf(TRUE),
     F32NaN}

Text(s) == [ok |-> TRUE, s |-> s]

\* Lines an edited file may hold: another version, an empty line, text that is
\* neither the version nor a number, a decimal that is no f32 and parses to
\* 1.0 by rounding, a line that is not UTF-8.
LineSamples ==
    {Text(<<"v", "1">>), Text(<<>>), Text(<<"V", "0">>),
     Text(<<"1", ".", "0", "0", "0", "0", "0", "0", "0", "1">>),
     [ok |-> FALSE, s |-> <<BadByte>>]}

(***************************************************************************)
(* State                                                                   *)
(***************************************************************************)
VARIABLES
    \* the codec, called on its own
    ct,         \* the Transform handed to serialize_transform
    edits,      \* components of ct set away from a base transform
    cser,       \* serialize_transform's result and the writer it leaves
    clines,     \* the lines handed to deserialize_transform
    muts,       \* lines of clines edited since they were read
    cres,       \* deserialize_transform's result
    cpc,        \* "input", "written", "lines", "decoded"
    \* the application
    name,       \* WhereWasI.name of each tagged entity
    spawn,      \* the Transform each entity is spawned with
    transform,  \* the Transform component of each entity
    files,      \* the files of the save directory, by path
    dirExists,  \* whether the save directory exists
    unread,     \* WindowClosing events save_state's EventReader has not read
    phase,      \* "startup", "running", "panicked"
    log         \* what load_state or save_state logged since an entity last moved

codecVars == <<ct, edits, cser, clines, muts, cres, cpc>>

appVars == <<name, spawn, transform, files, dirExists, unread, phase, log>>

vars == <<ct, edits, cser, clines, muts, cres, cpc,
          name, spawn, transform, files, dirExists, unread, phase, log>>

(***************************************************************************)
(* The codec on its own                                                    *)
(***************************************************************************)
MaxEdits == 1

MaxMuts == 2

\* A capacity as BufWriter::with_capacity may give it, below the file's size.
SmallCap == 8

WriterCaps == {SmallCap, DEFAULT_BUF_SIZE}

\* Sinks: one that takes everything, and ones that fail after 0, 20, 45 bytes.
Sinks == {Sink(FALSE, 0), Sink(TRUE, 0), Sink(TRUE, 20), Sink(TRUE, 45)}

NoWrite == [ok |-> FALSE, w |-> BufWriterNew(0, Sink(FALSE, 0))]

NoResult == [ok |-> FALSE, msg |-> <<>>, pos |-> 0, vals |-> <<>>]

CodecIdle ==
    /\ ct = IDENTITY /\ edits = 0 /\ cser = NoWrite /\ clines = <<>>
    /\ muts = 0 /\ cres = NoResult /\ cpc = "input"

SetComponent(i, v) ==
    /\ cpc = "input"
    /\ edits < MaxEdits
    /\ Components(ct)[i] # v
    /\ ct' = FromComponents([Components(ct) EXCEPT ![i] = v])
    /\ edits' = edits + 1
    /\ UNCHANGED <<cser, clines, muts, cres, cpc>>
    /\ UNCHANGED appVars

Serialize(cap, sink) ==
    /\ cpc = "input"
    /\ cser' = serialize_transform(BufWriterNew(cap, sink), ct)
    /\ cpc' = "written"
    /\ UNCHANGED <<ct, edits, clines, muts, cres>>
    /\ UNCHANGED appVars

\* The writer is dropped and the file read back line by line.
ReadBack ==
    /\ cpc = "written"
    /\ clines' = ReadLines(DropWriter(cser.w))
    /\ cpc' = "lines"
    /\ UNCHANGED <<ct, edits, cser, muts, cres>>
    /\ UNCHANGED appVars

\* The lines are edited between reading and decoding, as a file is edited by
\* hand after save_state wrote all of it: one of the base transforms, through
\* a BufWriter::new, into a file that took every byte.
Edited ==
    /\ edits = 0
    /\ cser.ok
    /\ cser.w.cap = DEFAULT_BUF_SIZE
    /\ ~cser.w.sink.limited

ReplaceLine(i, item) ==
    /\ cpc = "lines"
    /\ muts < MaxMuts
    /\ Edited
    /\ i \in 1..Len(clines)
    /\ clines[i] # item
    /\ clines' = [clines EXCEPT ![i] = item]
    /\ muts' = muts + 1
    /\ UNCHANGED <<ct, edits, cser, cres, cpc>>
    /\ UNCHANGED appVars

Truncate(n) ==
    /\ cpc = "lines"
    /\ muts < MaxMuts
    /\ Edited
    /\ n < Len(clines)
    /\ clines' = SubSeq(clines, 1, n)
    /\ muts' = muts + 1
    /\ UNCHANGED <<ct, edits, cser, cres, cpc>>
    /\ UNCHANGED appVars

AppendLine(item) ==
    /\ cpc = "lines"
    /\ muts < MaxMuts
    /\ Edited
    /\ clines' = Append(clines, item)
    /\ muts' = muts + 1
    /\ UNCHANGED <<ct, edits, cser, cres, cpc>>
    /\ UNCHANGED appVars

Deserialize ==
    /\ cpc = "lines"
    /\ cres' = deserialize_transform(clines)
    /\ cpc' = "decoded"
    /\ UNCHANGED <<ct, edits, cser, clines, muts>>
    /\ UNCHANGED appVars

(***************************************************************************)
(* The application: tagged entities, the save directory, the two systems   *)
(***************************************************************************)
NumEntities == 2

MaxEvents == 2

Entities == 1..NumEntities

\* "camera" is WhereWasI::camera(); the other is the name the tests use.
Names == {"camera", "system_save_test"}

\* WhereWasIConfig.directory, as WhereWasIPlugin::default() sets it.
Directory == "./assets/saves"

\* format!("{directory}/{filename}.state")
FilePath(directory, filename) == directory \o "/" \o filename \o ".state"

Paths == {FilePath(Directory, n) : n \in Names}

\* A path of the directory: whether a file is there, whether File::open may
\* read it, and its bytes.
NoFile == [exists |-> FALSE, readable |-> FALSE, data |-> <<>>]

File(data) == [exists |-> TRUE, readable |-> TRUE, data |-> data]

Unreadable(data) == [exists |-> TRUE, readable |-> FALSE, data |-> data]

\* File::create on path: the file is there and empty, its permissions stay.
Created(fs, path) ==
    IF fs[path].exists THEN [fs[path] EXCEPT !.data = <<>>] ELSE File(<<>>)

\* What serialize_transform writes for t into a file that takes it all.
Saved(t) ==
    DropWriter(serialize_transform(BufWriterNew(DEFAULT_BUF_SIZE, Sink(FALSE, 0)), t).w)

\* A file written by hand: decimals that parse to TRANSFORM's values, one of
\* them by rounding, other labels, and a last line without its terminator.
HandWritten ==
    <<"v", "0", NL, "#", NL, "p", "o", "s", NL, "4", ".", "0", NL, "3", "5", "e", "-", "1",
      NL, "-", "2", NL, NL, "r", "o", "t", NL, "-", ".", "1", NL,
      "0", ".", "7", "0", "0", "0", "0", "0", "0", "1", NL,
      "+", "0", ".", "4", NL, "6", "E", "-", "1", NL, NL, "s", "c", "a", "l", "e", NL,
      "1", "2", ".", "6", NL, "-", "1", ".", NL, "2", ".", "4">>

\* A file of another version.
InvalidVersion == <<"v", "1", NL>> \o SubSeq(Saved(IDENTITY), 4, Len(Saved(IDENTITY)))

\* What a path may hold before the application first runs; a file that ends
\* early is what a save into a full file system leaves.
InitialFiles ==
    {NoFile, File(HandWritten), File(InvalidVersion), Unreadable(HandWritten)}

\* A Transform another system may give an entity, one of them with a NaN.
MoveTargets ==
    {TRANSFORM,
     Transform(<<F32NaN, Zero, F32Inf(TRUE)>>, <<Zero, Zero, Zero, One>>, <<One, One, One>>)}

\* What can go wrong in one run of save_state: nothing, or for the entity
\* `at`: fs::exists fails, create_dir_all fails, File::create fails, or the
\* file takes only `room` bytes.  Only the first turn of the loop can find the
\* directory absent, so the first two are faults of that turn.
Envs ==
    {[kind |-> "none", at |-> 0, room |-> 0]}
    \cup [kind : {"exists", "mkdir"}, at : {1}, room : {0}]
    \cup [kind : {"create"}, at : Entities, room : {0}]
    \cup [kind : {"full"}, at : Entities, room : {20}]

LogLine(level, text, n, arg) == [level |-> level, text |-> text, n |-> n, arg |-> arg]

(***************************************************************************)
(* load_state                                                              *)
(***************************************************************************)
\* read_lines(filepath): Ok(lines) when File::open succeeds.
read_lines(fs, path) ==
    IF fs[path].exists /\ fs[path].readable
    THEN [ok |-> TRUE, lines |-> ReadLines(fs[path].data)]
    ELSE [ok |-> FALSE, lines |-> <<>>]

LoadResult(fs, e) ==
    With(read_lines(fs, FilePath(Directory, name[e])), LAMBDA contents :
      IF contents.ok
      THEN [opened |-> TRUE, r |-> deserialize_transform(contents.lines)]
      ELSE [opened |-> FALSE, r |-> NoResult])

\* A load that falls back to Transform::default() when the file does not decode.
LoadEntityOrDefault(fs, e) ==
    With(LoadResult(fs, e), LAMBDA l :
      [loaded    |-> l.opened /\ l.r.ok,
       transform |-> IF l.opened /\ l.r.ok THEN Decoded(l.r)
                     ELSE IF l.opened THEN IDENTITY ELSE transform[e],
       errors    |-> IF l.opened /\ ~l.r.ok
                     THEN <<LogLine("error", "Could not deserialize transform: ", 0,
                                    l.r.msg)>>
                     ELSE <<>>])

\* What load_state does for entity e: the Transform it leaves, and the line
\* it logs with error!, if any.
LoadEntity(fs, e) ==
    With(LoadResult(fs, e), LAMBDA l :
      [loaded    |-> l.opened /\ l.r.ok,
       transform |-> IF l.opened /\ l.r.ok THEN Decoded(l.r) ELSE transform[e],
       errors    |-> IF l.opened /\ ~l.r.ok
                     THEN <<LogLine("error", "Could not deserialize transform: ", 0,
                                    l.r.msg)>>
                     ELSE <<>>])

RECURSIVE LoadErrors(_, _)
LoadErrors(done, e) ==
    IF e > NumEntities THEN <<>> ELSE done[e].errors \o LoadErrors(done, e + 1)

\* for (where_was_i, mut transform) in to_save.iter_mut(), then the info! line.
load_state ==
    /\ phase = "startup"
    /\ \E done \in {[e \in Entities |-> LoadEntity(files, e)]} :
         /\ transform' = [e \in Entities |-> done[e].transform]
         /\ log' = LoadErrors(done, 1)
                   \o <<LogLine("info", "Initialized {} transform(s)",
                                Cardinality({e \in Entities : done[e].loaded}), <<>>)>>
    /\ phase' = "running"
    /\ UNCHANGED <<name, spawn, files, dirExists, unread>>
    /\ UNCHANGED codecVars

(***************************************************************************)
(* save_state                                                              *)
(***************************************************************************)
\* A turn that logs nothing and goes on to the next entity when the directory
\* or the file cannot be made, and counts the files it wrote.
SaveEntitySkip(st, e, env) ==
    LET hit      == env.at = e
        path     == FilePath(Directory, name[e])
        absent   == ~st.dirExists /\ ~(hit /\ env.kind = "exists")
        mkdirErr == absent /\ hit /\ env.kind = "mkdir"
        dir      == st.dirExists \/ (absent /\ ~mkdirErr)
        openErr  == ~dir \/ (hit /\ env.kind = "create")
        sink     == IF hit /\ env.kind = "full" THEN Sink(TRUE, env.room)
                    ELSE Sink(FALSE, 0)
    IN  IF mkdirErr \/ openErr
        THEN [st EXCEPT !.dirExists = dir]
        ELSE With(serialize_transform(BufWriterNew(DEFAULT_BUF_SIZE, sink), transform[e]),
                  LAMBDA r :
               [st EXCEPT !.dirExists = dir,
                          !.files = [st.files EXCEPT
                                       ![path] = [Created(st.files, path)
                                                    EXCEPT !.data = DropWriter(r.w)]],
                          !.saved = @ + 1])

\* One turn of save_state's loop, for entity e, from the file system and the
\* count st holds.  panic is the message of the expect that failed, or "".
\* The BufWriter is dropped at the end of the turn, and when a panic unwinds.
SaveEntity(st, e, env) ==
    LET hit      == env.at = e
        path     == FilePath(Directory, name[e])
        \* if let Ok(false) = fs::exists(directory)
        absent   == ~st.dirExists /\ ~(hit /\ env.kind = "exists")
        mkdirErr == absent /\ hit /\ env.kind = "mkdir"
        dir      == st.dirExists \/ (absent /\ ~mkdirErr)
        openErr  == ~dir \/ (hit /\ env.kind = "create")
        sink     == IF hit /\ env.kind = "full" THEN Sink(TRUE, env.room)
                    ELSE Sink(FALSE, 0)
    IN  IF mkdirErr
        THEN [st EXCEPT !.panic = "Could not create directory"]
        ELSE IF openErr
        THEN [st EXCEPT !.dirExists = dir, !.panic = "Error occurred while opening file"]
        ELSE With(serialize_transform(BufWriterNew(DEFAULT_BUF_SIZE, sink), transform[e]),
                  LAMBDA r :
               With([st.files EXCEPT
                       ![path] = [Created(st.files, path) EXCEPT !.data = DropWriter(r.w)]],
                    LAMBDA written :
                 IF ~r.ok
                 THEN [st EXCEPT !.dirExists = dir, !.files = written,
                                 !.panic = "Error occurred while writing to disk"]
                 ELSE [st EXCEPT !.dirExists = dir, !.files = written,
                                 !.saved = @ + 1]))

\* for (where_was_i, transform) in to_save.iter(): a panic ends the loop.
RECURSIVE SaveLoop(_, _, _)
SaveLoop(st, e, env) ==
    IF e > NumEntities \/ st.panic # "" THEN st
    ELSE With(SaveEntity(st, e, env), LAMBDA next : SaveLoop(next, e + 1, env))

SaveStart == [files |-> files, dirExists |-> dirExists, saved |-> 0, panic |-> ""]

\* A save_state that does not look for the event.
save_state_unguarded(env) ==
    /\ phase = "running"
    /\ \E st \in {SaveLoop(SaveStart, 1, env)} :
         /\ unread' = IF unread > 0 THEN unread - 1 ELSE 0
         /\ files' = st.files
         /\ dirExists' = st.dirExists
         /\ IF st.panic # ""
            THEN /\ phase' = "panicked"
                 /\ log' = <<LogLine("panic", st.panic, 0, <<>>)>>
            ELSE /\ phase' = "running"
                 /\ log' = <<LogLine("info", "Saved {} transforms to: {}",
                                     st.saved, <<>>)>>
    /\ UNCHANGED <<name, spawn, transform>>
    /\ UNCHANGED codecVars

\* events.read().next().is_some() takes one event from the reader.
save_state(env) ==
    /\ phase = "running"
    /\ IF unread > 0
       THEN \E st \in {SaveLoop(SaveStart, 1, env)} :
                /\ unread' = unread - 1
                /\ files' = st.files
                /\ dirExists' = st.dirExists
                /\ IF st.panic # ""
                   THEN /\ phase' = "panicked"
                        /\ log' = <<LogLine("panic", st.panic, 0, <<>>)>>
                   ELSE /\ phase' = "running"
                        /\ log' = <<LogLine("info", "Saved {} transforms to: {}",
                                            st.saved, <<>>)>>
       ELSE /\ env.kind = "none"
            /\ log' = <<>>
            /\ UNCHANGED <<unread, files, dirExists, phase>>
    /\ UNCHANGED <<name, spawn, transform>>
    /\ UNCHANGED codecVars

(***************************************************************************)
(* The rest of the application                                             *)
(***************************************************************************)
\* A window is asked to close.
SendWindowClosing ==
    /\ phase \in {"startup", "running"}
    /\ unread < MaxEvents
    /\ unread' = unread + 1
    /\ UNCHANGED <<name, spawn, transform, files, dirExists, phase, log>>
    /\ UNCHANGED codecVars

\* Another system moves an entity.
MoveEntity(e, t) ==
    /\ phase = "running"
    /\ transform[e] # t
    /\ transform' = [transform EXCEPT ![e] = t]
    /\ log' = <<>>
    /\ UNCHANGED <<name, spawn, files, dirExists, unread, phase>>
    /\ UNCHANGED codecVars

\* The application ends, by exit or by the panic, and is started again: the
\* entities are spawned anew, the files are what the last run left.
Restart ==
    /\ phase \in {"running", "panicked"}
    /\ phase' = "startup"
    /\ transform' = spawn
    /\ unread' = 0
    /\ log' = <<>>
    /\ UNCHANGED <<name, spawn, files, dirExists>>
    /\ UNCHANGED codecVars

AppIdle ==
    /\ name = [e \in Entities |-> "camera"]
    /\ spawn = [e \in Entities |-> IDENTITY]
    /\ transform = spawn
    /\ files = [p \in Paths |-> NoFile]
    /\ dirExists = FALSE
    /\ unread = 0
    /\ phase = "startup"
    /\ log = <<>>

(***************************************************************************)
(* Specifications                                                          *)
(***************************************************************************)
Init ==
    /\ CodecIdle
    /\ name \in {f \in [Entities -> Names] : f[1] = "camera"}
    /\ spawn \in {[e \in Entities |-> b] : b \in BaseTransforms}
    /\ transform = spawn
    /\ dirExists \in BOOLEAN
    /\ files \in [Paths -> IF dirExists THEN InitialFiles ELSE {NoFile}]
    /\ unread = 0
    /\ phase = "startup"
    /\ log = <<>>

Next ==
    \/ load_state
    \/ \E env \in Envs : save_state(env)
    \/ SendWindowClosing
    \/ \E e \in Entities, t \in MoveTargets : MoveEntity(e, t)
    \/ Restart

Spec == Init /\ [][Next]_vars

CodecInit ==
    /\ AppIdle
    /\ ct \in BaseTransforms
    /\ edits = 0
    /\ cser = NoWrite
    /\ clines = <<>>
    /\ muts = 0
    /\ cres = NoResult
    /\ cpc = "input"

CodecNext ==
    \/ \E i \in 1..10, v \in FloatSamples : SetComponent(i, v)
    \/ \E cap \in WriterCaps, sink \in Sinks : Serialize(cap, sink)
    \/ ReadBack
    \/ \E i \in 1..Len(DecodeSteps), item \in LineSamples : ReplaceLine(i, item)
    \/ \E n \in 0..Len(DecodeSteps) : Truncate(n)
    \/ \E item \in LineSamples : AppendLine(item)
    \/ Deserialize

CodecSpec == CodecInit /\ [][CodecNext]_vars

(***************************************************************************)
(* What the properties of the codec are stated with                        *)
(***************************************************************************)
\* The bytes handed to a writer so far: those it passed on and those it holds.
WrittenBytes(w) == w.sink.data \o w.buf

\* The call returned Ok and every byte reaches the sink when the writer drops.
Complete(r) == r.ok /\ FlushBuf(r.w).ok

CountNL(bytes) == Cardinality({i \in 1..Len(bytes) : bytes[i] = NL})

RECURSIVE Terminated(_)
Terminated(ls) ==
    IF ls = <<>> THEN <<>> ELSE Head(ls) \o <<NL>> \o Terminated(Tail(ls))

\* The lines of t's file as the format lays them out.
LayoutLines(t) ==
    << <<"v", "0">>,
       <<>>,
       <<"t", "r", "a", "n", "s", "l", "a", "t", "i", "o", "n", ":">>,
       F32ToString(t.translation[1]),
       F32ToString(t.translation[2]),
       F32ToString(t.translation[3]),
       <<>>,
       <<"r", "o", "t", "a", "t", "i", "o", "n", ":">>,
       F32ToString(t.rotation[1]),
       F32ToString(t.rotation[2]),
       F32ToString(t.rotation[3]),
       F32ToString(t.rotation[4]),
       <<>>,
       <<"s", "c", "a", "l", "e", ":">>,
       F32ToString(t.scale[1]),
       F32ToString(t.scale[2]),
       F32ToString(t.scale[3]) >>

\* The positions of the file's lines, by what the decoder does with them.
NumericPositions == {4, 5, 6, 9, 10, 11, 12, 15, 16, 17}

SkippedPositions == {2, 3, 7, 8, 13, 14}

AllPositions == {1} \cup SkippedPositions \cup NumericPositions

\* Whether the decoder goes on after the line `item` at position i.
Accepted(i, item) ==
    /\ item.ok
    /\ i = 1 => item.s = <<"v", "0">>
    /\ i \in NumericPositions => ParseF32(item.s).ok

\* The positions at which the decoder cannot go on: a line that is missing or
\* one it does not accept.
Offending(lines) ==
    {i \in AllPositions : i > Len(lines) \/ ~Accepted(i, lines[i])}

Min(S) == CHOOSE x \in S : \A y \in S : x <= y

\* The error the decoder has for position p when it cannot go on there.
ErrorAt(lines, p) ==
    IF p > Len(lines) THEN expected_line
    ELSE IF ~lines[p].ok THEN InvalidUtf8
    ELSE IF p = 1 THEN WrongVersionPrefix \o lines[p].s
    ELSE ParseF32(lines[p].s).msg

\* The lines of ct's file, and the positions at which clines differs from them.
Pristine == ReadLines(Terminated(LayoutLines(ct)))

Changed ==
    LET was == Pristine
    IN  {i \in 1..Len(clines) : i > Len(was) \/ clines[i] # was[i]}

(***************************************************************************)
(* Properties of the codec, stated for CodecSpec                           *)
(***************************************************************************)
\* C1: for a Transform whose ten components are all finite, the lines of
\* the bytes serialize_transform wrote, handed to deserialize_transform, give
\* Ok(t') with t' equal to the Transform in every component of translation,
\* rotation and scale.
C1_RoundTrip ==
    (cpc = "decoded" /\ muts = 0 /\ Complete(cser) /\ AllFinite(ct))
        => /\ cres.ok
           /\ TransformEq(Decoded(cres), ct)
           /\ Decoded(cres) = ct

\* A round trip of a Transform that is neither IDENTITY nor TRANSFORM, with a
\* component whose text parses back only by rounding, through a writer that
\* had to flush while serialize_transform ran.
C1_Witness ==
    /\ cpc = "decoded" /\ muts = 0 /\ Complete(cser) /\ AllFinite(ct)
    /\ edits = 1
    /\ cser.w.cap = SmallCap
    /\ \E i \in 1..10 : Components(ct)[i] \in {F32Fin(FALSE, 31415927, 0 - 7),
                                                 F32Fin(FALSE, 34028235, 31)}
    /\ cres.ok

\* C4: when the first line is a string other than exactly "v0", the
\* decoder returns Err with the message "Wrong version: " followed by that
\* string, and has taken no line after the first, however many lines follow
\* and whatever they hold.
C4_VersionGate ==
    (cpc = "decoded" /\ clines # <<>> /\ clines[1].ok /\ clines[1].s # <<"v", "0">>)
        => /\ ~cres.ok
           /\ cres.msg = WrongVersionPrefix \o clines[1].s
           /\ cres.pos = 1

\* A first line "V0" before sixteen lines of which one more is no longer what
\* the encoder wrote, refused for its version.
C4_Witness ==
    /\ cpc = "decoded" /\ muts = 2
    /\ Len(clines) = 17
    /\ clines[1] = Text(<<"V", "0">>)
    /\ \E i \in NumericPositions : ~Accepted(i, clines[i])
    /\ ~cres.ok
    /\ cres.msg = WrongVersionPrefix \o <<"V", "0">>

\* C5: when the lines end before a line the decoder requires, and every
\* line before that is one it goes on after, the result is Err with exactly
\* the message "Expected line to be there, but it wasn't there"; so for no
\* lines at all and for every proper prefix of a well-formed file.
C5_Truncated ==
    (cpc = "decoded" /\ Len(clines) < 17
       /\ \A i \in 1..Len(clines) : Accepted(i, clines[i]))
        => /\ ~cres.ok
           /\ cres.msg = expected_line
           /\ cres.pos = Len(clines)

\* A well-formed file cut after its twelfth line, in the middle of the fields.
C5_Witness ==
    /\ cpc = "decoded" /\ muts = 1
    /\ clines = SubSeq(Pristine, 1, 12)
    /\ ~cres.ok
    /\ cres.msg = expected_line

\* C6 as the claim states it: with the lines at positions 2, 3, 6, 7, 11 and
\* 12 of a well-formed file replaced by any non-blank text, the decoder still
\* gives the file's Transform.
C6_Orig ==
    (cpc = "decoded" /\ AllFinite(ct) /\ Len(clines) = 17
       /\ Changed \subseteq {2, 3, 6, 7, 11, 12}
       /\ \A i \in Changed : clines[i].ok /\ clines[i].s # <<>>)
        => /\ cres.ok
           /\ Decoded(cres) = ct

\* C6: with the lines at positions 2, 3, 7, 8, 13 and 14 of a well-formed
\* file (the blank and the label before each field) replaced by any text,
\* blank or not, the decoder still gives the file's Transform: it reads these
\* lines and never looks at what they hold.
C6_SkippedLines ==
    (cpc = "decoded" /\ AllFinite(ct) /\ Len(clines) = 17
       /\ Changed \subseteq SkippedPositions
       /\ \A i \in Changed : clines[i].ok)
        => /\ cres.ok
           /\ cres.pos = 17
           /\ Decoded(cres) = ct

\* Two of the blank and label lines replaced, one of them by non-blank text,
\* and TRANSFORM decoded all the same.
C6_Witness ==
    /\ cpc = "decoded" /\ ct = TRANSFORM /\ Len(clines) = 17
    /\ Cardinality(Changed) = 2
    /\ Changed \subseteq SkippedPositions
    /\ \E i \in Changed : clines[i] = Text(<<"V", "0">>)
    /\ cres.ok
    /\ Decoded(cres) = TRANSFORM

\* C7: on a sink that takes every byte, serialize_transform returns Ok and
\* has written exactly "v0", an empty line, "translation:", the translation's
\* x, y, z, an empty line, "rotation:", the rotation's x, y, z, w, an empty
\* line, "scale:", the scale's x, y, z, each ended by one "\n"; the bytes
\* depend on the Transform alone.
C7_Layout ==
    (cpc = "written" /\ ~cser.w.sink.limited)
        => /\ cser.ok
           /\ WrittenBytes(cser.w) = Terminated(LayoutLines(ct))
           /\ DropWriter(cser.w) = Terminated(LayoutLines(ct))

\* A Transform with a component away from IDENTITY and TRANSFORM, written
\* through a writer that flushed on the way.
C7_Witness ==
    /\ cpc = "written" /\ ~cser.w.sink.limited
    /\ cser.w.cap = SmallCap
    /\ edits = 1
    /\ cser.ok
    /\ Len(cser.w.sink.data) > 0

\* C8 as the claim states it: a successful serialize_transform writes exactly
\* 15 newline-terminated lines and a successful deserialize_transform takes
\* exactly 15 lines.
C8_Orig ==
    /\ (cpc = "written" /\ cser.ok)
           => /\ CountNL(WrittenBytes(cser.w)) = 15
              /\ WrittenBytes(cser.w)[Len(WrittenBytes(cser.w))] = NL
    /\ (cpc = "decoded" /\ cres.ok) => cres.pos = 15

\* C8: a successful serialize_transform writes exactly 17 newline-terminated
\* lines (the version, and before each of the three fields a blank line and a
\* label, then the ten floats), and a successful deserialize_transform takes
\* exactly 17 lines from its input, also when more lines follow.
C8_SeventeenLines ==
    /\ (cpc = "written" /\ cser.ok)
           => /\ CountNL(WrittenBytes(cser.w)) = 17
              /\ WrittenBytes(cser.w)[Len(WrittenBytes(cser.w))] = NL
              /\ Len(ReadLines(WrittenBytes(cser.w))) = 17
    /\ (cpc = "decoded" /\ cres.ok) => cres.pos = 17

\* A file with a line after the seventeenth, decoded.
C8_Witness ==
    /\ cpc = "decoded"
    /\ cser.ok /\ CountNL(WrittenBytes(cser.w)) = 17
    /\ Len(clines) = 18
    /\ cres.ok
    /\ cres.pos = 17

\* C10: the decoder looks at the lines in the order of their positions and
\* returns the error of the first position at which it cannot go on: the
\* missing-line error when the lines end there, else the version error at
\* position 1 and the error of parsing the line at a numeric position.  So
\* when that position holds a line that is no float the result is the error
\* of parsing it, also when the lines end early or hold other bad lines after
\* it; the decoder has taken no line after that position and returns no
\* Transform.  With no such position the result is Ok.
C10_FirstError ==
    cpc = "decoded" =>
        IF Offending(clines) = {}
        THEN cres.ok /\ cres.pos = 17
        ELSE LET p == Min(Offending(clines))
             IN  /\ ~cres.ok
                 /\ cres.vals = <<>>
                 /\ cres.msg = ErrorAt(clines, p)
                 /\ cres.pos = IF p > Len(clines) THEN Len(clines) ELSE p

\* An empty line where a float belongs, and after it either the end of the
\* lines or a line "V0" where another float belongs: the error is the one of
\* the empty line.
C10_Witness ==
    /\ cpc = "decoded" /\ muts = 2
    /\ Offending(clines) # {}
    /\ LET p == Min(Offending(clines))
       IN  /\ p \in NumericPositions /\ p <= Len(clines)
           /\ clines[p] = Text(<<>>)
           /\ \E q \in NumericPositions :
                 /\ q > p
                 /\ q <= Len(clines)
                 /\ clines[q] = Text(<<"V", "0">>)
           /\ cres.msg = PfeEmpty
    /\ ~cres.ok

(***************************************************************************)
(* What the properties of the application are stated with                  *)
(***************************************************************************)
PathOf(e) == FilePath(Directory, name[e])

\* The entities saved to path p, and the one the query yields last.
NamedAt(p) == {e \in Entities : PathOf(e) = p}

LastAt(p) == CHOOSE e \in NamedAt(p) : \A d \in NamedAt(p) : d <= e

IsPrefix(a, b) == Len(a) <= Len(b) /\ a = SubSeq(b, 1, Len(a))

\* The result of decoding what a file holds.
DecodeFile(f) == deserialize_transform(ReadLines(f.data))

\* A step of load_state: the startup system has run.
LoadRun == phase = "startup" /\ phase' = "running"

\* A step of save_state in an update in which it reads a WindowClosing event.
SaveRun ==
    /\ phase = "running" /\ unread > 0
    /\ unread' = unread - 1
    /\ phase' # "startup"

(***************************************************************************)
(* Properties of the application, stated for Spec                          *)
(***************************************************************************)
\* The entity at whose turn save_state panics when env is what goes wrong,
\* or 0 when it returns: the first entity when the directory is absent and
\* cannot be seen or made, the entity whose file cannot be opened.
PanicsAt(env) ==
    IF env.kind \in {"exists", "mkdir"} /\ ~dirExists THEN env.at
    ELSE IF env.kind = "create" THEN env.at
    ELSE 0

\* The entities whose turn of the loop comes to writing the file.
Visited(env) == {e \in Entities : PanicsAt(env) = 0 \/ e < PanicsAt(env)}

\* Those of them saved to path p.
Writers(p, env) == NamedAt(p) \cap Visited(env)

LastOf(S) == CHOOSE e \in S : \A d \in S : d <= e

\* What an update in which save_state reads the event leaves, env being what
\* went wrong in it: a path that no visited entity names is as it was; any
\* other exists and holds the bytes of the Transform of the last visited
\* entity of that name, all of them unless the file system took only
\* env.room bytes of that entity's file.
SavePost(env) ==
    /\ phase' = IF PanicsAt(env) = 0 THEN "running" ELSE "panicked"
    /\ \A p \in Paths :
          IF Writers(p, env) = {} THEN files'[p] = files[p]
          ELSE With(LastOf(Writers(p, env)), LAMBDA last :
               With(Terminated(LayoutLines(transform[last])), LAMBDA bytes :
                 /\ files'[p].exists
                 /\ IF env.kind = "full" /\ env.at = last
                    THEN files'[p].data = SubSeq(bytes, 1, env.room)
                    ELSE /\ files'[p].data = bytes
                         /\ AllFinite(transform[last]) =>
                               With(DecodeFile(files'[p]), LAMBDA r :
                                 r.ok /\ TransformEq(Decoded(r), transform[last]))))

\* C2 as the claim states it: a state file changes only in an update in
\* which save_state reads a WindowClosing event, and after such an update the
\* file of every tagged entity decodes to the Transform the entity has.
C2_Orig ==
    /\ [][files' # files => SaveRun]_vars
    /\ [][ SaveRun =>
             \A e \in Entities :
                With(DecodeFile(files'[PathOf(e)]), LAMBDA r :
                  /\ files'[PathOf(e)].exists
                  /\ r.ok
                  /\ TransformEq(Decoded(r), transform[e]))
         ]_vars

\* C2: a state file changes only in an update in which save_state reads a
\* WindowClosing event; an update without one changes no file.  In such an
\* update, whatever goes wrong in it, save_state takes the tagged entities
\* in query order until an expect panics or none is left; it panics exactly
\* when the directory or a file cannot be made.  A path that none of the
\* entities it got to names is left as it was.  Any other path exists
\* afterwards and holds exactly the bytes serialize_transform gives for the
\* Transform of the last such entity of that name, and decodes to that
\* Transform when it is finite; only when the file system stopped taking
\* that entity's bytes does the file hold just the bytes it took.
C2_SavedOnClose ==
    /\ [][files' # files => SaveRun]_vars
    /\ [][ \A env \in Envs : (SaveRun /\ save_state(env)) => SavePost(env) ]_vars

\* Two entities with different names, one of them moved since it was spawned,
\* and after the save each file decodes to the Transform of its entity.
C2_Witness ==
    /\ phase = "running"
    /\ log = <<LogLine("info", "Saved {} transforms to: {}", 2, <<>>)>>
    /\ name[1] # name[2]
    /\ transform[1] # transform[2]
    /\ \E e \in Entities : transform[e] # spawn[e]
    /\ \A e \in Entities :
          /\ files[PathOf(e)].data = Terminated(LayoutLines(transform[e]))
          /\ DecodeFile(files[PathOf(e)]).ok
          /\ TransformEq(Decoded(DecodeFile(files[PathOf(e)])), transform[e])

\* C3: load_state sets a tagged entity's Transform to the decoded value if
\* and only if its file can be opened and deserialize_transform returns Ok;
\* when the file is missing, cannot be read or does not decode, the entity's
\* Transform after load_state is the one before, whatever happened to the
\* other entities; load_state changes no file.
C3_LoadFrame ==
    [][ LoadRun =>
          /\ \A e \in Entities :
                LET f == files[PathOf(e)]
                IN  IF f.exists /\ f.readable /\ DecodeFile(f).ok
                    THEN transform'[e] = Decoded(DecodeFile(f))
                    ELSE transform'[e] = transform[e]
          /\ files' = files
      ]_vars

\* The first entity's file is of another version and the entity keeps the
\* Transform it was spawned with, which is not the default one; the second
\* entity's file is decoded and loaded all the same.
C3_Witness ==
    /\ phase = "running"
    /\ Len(log) = 2
    /\ log[1].level = "error"
    /\ log[1].arg = WrongVersionPrefix \o <<"v", "1">>
    /\ log[2].text = "Initialized {} transform(s)" /\ log[2].n = 1
    /\ name[1] # name[2]
    /\ ~DecodeFile(files[PathOf(1)]).ok
    /\ spawn[1] = TRANSFORM /\ transform[1] = TRANSFORM
    /\ files[PathOf(2)] = File(HandWritten)
    /\ transform[2] = Decoded(DecodeFile(files[PathOf(2)]))

\* C9 as the claim states it: a save that fails for an entity does not abort
\* save_state; the run ends with a logged count, which is the number of
\* entities whose file was written completely.
C9_Orig ==
    [][ SaveRun =>
          /\ phase' # "panicked"
          /\ Len(log') = 1
          /\ log'[1].level = "info"
          /\ log'[1].n = Cardinality({e \in Entities :
                            /\ files'[PathOf(e)].exists
                            /\ files'[PathOf(e)].data
                                 = Terminated(LayoutLines(transform[LastAt(PathOf(e))]))})
      ]_vars

\* C9: a save that fails at creating the directory or at opening the file
\* aborts save_state with a panic that carries the message of the expect that
\* failed, and no count is logged; serialize_transform returns no error on
\* the way; the entity it failed for and those after it are not saved, their
\* files being as they were unless an earlier entity of the same name wrote
\* them.  A save_state that does not panic logs the number of tagged
\* entities as the count, the directory exists and each of their files has
\* been created, also when the file system did not take all of a file's
\* bytes.
C9_SaveFailure ==
    [][ SaveRun =>
          IF phase' = "panicked"
          THEN /\ Len(log') = 1
               /\ log'[1].level = "panic"
               /\ log'[1].text \in {"Could not create directory",
                                    "Error occurred while opening file"}
               /\ \A env \in Envs :
                     save_state(env) =>
                        \A e \in Entities :
                           (e >= PanicsAt(env) /\ Writers(PathOf(e), env) = {})
                              => files'[PathOf(e)] = files[PathOf(e)]
          ELSE /\ log' = <<LogLine("info", "Saved {} transforms to: {}",
                                   NumEntities, <<>>)>>
               /\ dirExists'
               /\ \A e \in Entities : files'[PathOf(e)].exists
      ]_vars

\* The file of the second entity could not be opened: the first entity's
\* file is written, the second's is not there, and the run ended in a panic.
C9_Witness ==
    /\ phase = "panicked"
    /\ log = <<LogLine("panic", "Error occurred while opening file", 0, <<>>)>>
    /\ name[1] # name[2]
    /\ files[PathOf(1)].data = Terminated(LayoutLines(transform[1]))
    /\ ~files[PathOf(2)].exists

=============================================================================
